---- MODULE Spec2Model ----
(***************************************************************************)
(* A model of src/src/get_data.py of yanniskatsaros/hockey-analytics: the  *)
(* three fetching functions and their input validation, the identifier     *)
(* codec they share, the Feed Parser (_parse_api_plays), the Report        *)
(* Parser's identifier, vocabulary and on-ice steps                        *)
(* (_parse_players_on_ice), the                                            *)
(* Reconciliation Engine (_combine_api_html_data) and the Faceoff Deriver  *)
(* (_get_faceoff_data, _get_player_1_zone, _get_player_2_zone).            *)
(*                                                                         *)
(* Python strings whose characters matter (identifiers, descriptions) are  *)
(* sequences of one-character strings; NaN/None in a string column is the  *)
(* string NaN; an optional integer is the empty or the one-element         *)
(* sequence.                                                               *)
(***************************************************************************)
EXTENDS Integers, Sequences, FiniteSets, TLC

VARIABLES
    pc,           \* which function has run: the position of the caller
    args,         \* the GameKey the caller supplies: [year, season, game_number]
    raised,       \* the exception the last function raised, or "none"
    requests,     \* the URLs handed to requests.get so far, in order
    ret,          \* what the last fetching function returned
    json,         \* the feed payload given to _parse_api_plays
    api_df,       \* the Feed table
    html_df,      \* the Report table
    combined_df,  \* the merged table
    faceoff_df,   \* the faceoff table
    game_id_dtype \* the dtype of the Report table's game_id column

vars == <<pc, args, raised, requests, ret, json, api_df, html_df, combined_df, faceoff_df,
          game_id_dtype>>

(***************************************************************************)
(* Bounds of the model and constants of the program.                       *)
(***************************************************************************)
MinYear == 1917
MaxGameNumber == 1313
YearSpan == 2
MaxPlays == 3
MaxPlayers == 3
MaxFeedRows == 2
MaxReportRows == 2
MaxCombinedRows == 2
MaxParts == 2
MaxOnIce == 6

\* The value pandas holds for a missing entry of a string column.
NaN == "NaN"
\* A missing optional value (Python None), and a present one.
None == <<>>
Some(v) == <<v>>

(***************************************************************************)
(* Python string primitives on sequences of characters.                    *)
(***************************************************************************)
Digit == <<"0", "1", "2", "3", "4", "5", "6", "7", "8", "9">>

DigitValue(c) == CHOOSE d \in 0..9 : Digit[d + 1] = c

\* str(n) of a Python int
RECURSIVE str(_)
str(n) ==
    IF n < 0 THEN <<"-">> \o str(0 - n)
    ELSE IF n < 10 THEN <<Digit[n + 1]>>
    ELSE str(n \div 10) \o <<Digit[(n % 10) + 1]>>

\* s.zfill(width): zeros on the left, after a leading sign, up to width
RECURSIVE zfill(_, _)
zfill(s, width) ==
    IF Len(s) >= width THEN s
    ELSE IF Len(s) > 0 /\ s[1] \in {"+", "-"}
         THEN <<s[1]>> \o zfill(<<"0">> \o Tail(s), width - 1)
    ELSE zfill(<<"0">> \o s, width)

\* int(s) of a string of decimal digits (leading zeros allowed)
RECURSIVE int(_)
int(s) ==
    IF Len(s) = 1 THEN DigitValue(s[1])
    ELSE 10 * int(SubSeq(s, 1, Len(s) - 1)) + DigitValue(s[Len(s)])

(***************************************************************************)
(* The identifier codec.                                                   *)
(***************************************************************************)
seasons == {"pre", "regular", "post", "all-star"}

\* season flag -> the API's two-digit season code
season_dict ==
    [s \in seasons |->
        CASE s = "pre" -> <<"0", "1">>
          [] s = "regular" -> <<"0", "2">>
          [] s = "post" -> <<"0", "3">>
          [] s = "all-star" -> <<"0", "4">>]

\* the input error-checking shared by the three fetching functions:
\* the exception it raises, or "none"
CheckInputStrictYear(year, season, game_number) ==
    IF year <= MinYear THEN "ValueError"
    ELSE IF season \notin seasons THEN "ValueError"
    ELSE IF (game_number < 0) \/ (game_number > MaxGameNumber) THEN "ValueError"
    ELSE "none"

CheckInput(year, season, game_number) ==
    IF year < MinYear THEN "ValueError"
    ELSE IF season \notin seasons THEN "ValueError"
    ELSE IF (game_number < 0) \/ (game_number > MaxGameNumber) THEN "ValueError"
    ELSE "none"

\* game_id = f'{year}{season}{str(game_number).zfill(4)}' of the feed and boxscore
FeedGameId(year, season, game_number) ==
    str(year) \o season_dict[season] \o zfill(str(game_number), 4)

\* game_id = f'{season}{str(game_number).zfill(4)}' of the report
ReportGameIdPad3(season, game_number) ==
    season_dict[season] \o zfill(str(game_number), 3)

ReportGameId(season, game_number) ==
    season_dict[season] \o zfill(str(game_number), 4)

\* year_id = f'{year}{int(year) + 1}'
YearId(year) == str(year) \o str(year + 1)

FeedUrl(game_id) ==
    [base |-> "https://statsapi.web.nhl.com/api/v1/game/", id |-> game_id, tail |-> "/feed/live"]

BoxscoreUrl(game_id) ==
    [base |-> "https://statsapi.web.nhl.com/api/v1/game/", id |-> game_id, tail |-> "/boxscore"]

ReportUrl(year_id, game_id) ==
    [base |-> "http://www.nhl.com/scores/htmlreports/", id |-> year_id \o <<"/", "P", "L">> \o game_id,
     tail |-> ".HTM"]

\* html_df['game_id'] = (str(year) + html_df['game_id']).astype(int)
HtmlGameId(year, game_id) == int(str(year) \o game_id)

\* code -> season flag, as _parse_players_on_ice holds it; .get gives None
\* (here the string "None") for a code that is not a key
DecodeSeason(code) ==
    CASE code = <<"0", "1">> -> "pre"
      [] code = <<"0", "2">> -> "regular"
      [] code = <<"0", "3">> -> "post"
      [] code = <<"0", "4">> -> "all-star"
      [] OTHER -> "None"

\* season = game_id[:2]; season = season_dict.get(season)
DecodedSeasonFirst3(game_id) == DecodeSeason(SubSeq(game_id, 1, 3))

DecodedSeason(game_id) == DecodeSeason(SubSeq(game_id, 1, 2))

\* game_number = int(game_id[2:])
DecodedGameNumber(game_id) == int(SubSeq(game_id, 3, Len(game_id)))

(***************************************************************************)
(* The Event Vocabulary Map and the Report Parser's table.                 *)
(***************************************************************************)
\* play_lookup: the report's short codes and the feed's names for them
play_lookup_keys ==
    {"FAC", "GIVE", "TAKE", "HIT", "SHOT", "MISS", "STOP", "BLOCK", "GOAL", "PENL", "PEND",
     "PSTR", "GEND"}

play_lookup_get(code) ==
    CASE code = "FAC" -> "FACEOFF"
      [] code = "GIVE" -> "GIVEAWAY"
      [] code = "TAKE" -> "TAKEAWAY"
      [] code = "HIT" -> "HIT"
      [] code = "SHOT" -> "SHOT"
      [] code = "MISS" -> "MISSED_SHOT"
      [] code = "STOP" -> "STOP"
      [] code = "BLOCK" -> "BLOCKED_SHOT"
      [] code = "GOAL" -> "GOAL"
      [] code = "PENL" -> "PENALTY"
      [] code = "PEND" -> "PERIOD_END"
      [] code = "PSTR" -> "PERIOD_START"
      [] code = "GEND" -> "GAME_END"

\* plays_html['play_type'].map(play_lookup): Series.map with a dict gives NaN
\* for a value that is not a key, and does not raise
MapPlayTypeDefaulting(play_type) ==
    IF play_type \in play_lookup_keys THEN play_lookup_get(play_type) ELSE "PERIOD_OFFICIAL"

MapPlayType(play_type) ==
    IF play_type \in play_lookup_keys THEN play_lookup_get(play_type) ELSE NaN

\* One row of plays_html as _parse_players_on_ice leaves it: the scraped
\* cells, the game id (the report id, a string) and the mapped play_type_id.
\* The columns no operation below reads (event_id, strengths, time_remaining)
\* are left out; the on-ice columns are added by ParsedPlays.
ParsedRow(cells, game_id) ==
    [game_id |-> game_id,
     period |-> cells.period,
     time_elapsed |-> cells.time_elapsed,
     play_type |-> cells.play_type,
     play_type_id |-> MapPlayType(cells.play_type),
     play_description_html |-> cells.play_description_html]

\* the table: one row per scraped row, in order
ParsedReport(text, game_id) == [i \in 1..Len(text) |-> ParsedRow(text[i], game_id)]

(***************************************************************************)
(* The on-ice columns of the Report Parser.  An on-ice cell is the text of *)
(* the cell after the scrape: jersey number and position letter of each    *)
(* player, the players separated by one space ("11D 12D").                 *)
(***************************************************************************)
Whitespace == {" ", "\t", "\n", "\r"}

\* s.strip()
RECURSIVE strip(_)
strip(s) ==
    IF s = <<>> THEN s
    ELSE IF s[1] \in Whitespace THEN strip(Tail(s))
    ELSE IF s[Len(s)] \in Whitespace THEN strip(SubSeq(s, 1, Len(s) - 1))
    ELSE s

\* the characters the pattern '[aA-zZ]' matches: 'a', the range 'A'..'z'
\* (the letters and the six characters between 'Z' and 'a') and 'Z'.  The
\* backquote is in the range too; a TLA+ string cannot hold it and no cell
\* drawn below has one.
LetterClass ==
    {"A", "B", "C", "D", "E", "F", "G", "H", "I", "J", "K", "L", "M",
     "N", "O", "P", "Q", "R", "S", "T", "U", "V", "W", "X", "Y", "Z",
     "[", "\\", "]", "^", "_",
     "a", "b", "c", "d", "e", "f", "g", "h", "i", "j", "k", "l", "m",
     "n", "o", "p", "q", "r", "s", "t", "u", "v", "w", "x", "y", "z"}

\* .str.replace('[aA-zZ]', '') of one value, the pattern read as a regular
\* expression
RemoveLetters(s) ==
    LET Kept(c) == c \notin LetterClass IN SelectSeq(s, Kept)

\* s.split(sep) for a one-character sep: the pieces between the separators
RECURSIVE split(_, _)
split(s, sep) ==
    IF \A i \in 1..Len(s) : s[i] # sep THEN <<s>>
    ELSE LET i == CHOOSE i \in 1..Len(s) :
                      s[i] = sep /\ \A j \in 1..(i - 1) : s[j] # sep
         IN <<SubSeq(s, 1, i - 1)>> \o split(SubSeq(s, i + 1, Len(s)), sep)

\* one value of the column through .str.strip().str.replace(..).str.split(' ')
OnIceParts(cell) == split(RemoveLetters(strip(cell)), " ")

\* the column through the three steps, one list of pieces per row
OnIceSplit(text, column) == [i \in 1..Len(text) |-> OnIceParts(text[i][column])]

\* expand=True: the frame has as many columns as the longest list of pieces
RECURSIVE ExpandWidth(_)
ExpandWidth(parts) ==
    IF parts = <<>> THEN 0
    ELSE LET rest == ExpandWidth(Tail(parts))
         IN IF Len(Head(parts)) > rest THEN Len(Head(parts)) ELSE rest

\* expand=True: a row with fewer pieces has None in the columns it lacks
Expand(parts) ==
    [i \in 1..Len(parts) |->
        [k \in 1..ExpandWidth(parts) |->
            IF k <= Len(parts[i]) THEN Some(parts[i][k]) ELSE None]]

home_cols == <<"home_1", "home_2", "home_3", "home_4", "home_5", "home_6">>
away_cols == <<"away_1", "away_2", "away_3", "away_4", "away_5", "away_6">>

\* home_on_ice.columns = home_cols, then away_on_ice.columns = away_cols:
\* assigning six names to a frame that does not have six columns raises
\* ValueError (length mismatch)
OnIceRaised(text) ==
    IF ExpandWidth(OnIceSplit(text, "home_on_ice")) # Len(home_cols) THEN "ValueError"
    ELSE IF ExpandWidth(OnIceSplit(text, "away_on_ice")) # Len(away_cols) THEN "ValueError"
    ELSE "none"

AwayPrefix == <<"a", "w", "a", "y">>
HomePrefix == <<"h", "o", "m", "e">>

\* 'away' + x on one value of a slot column: a missing value stays missing
\* (DataFrame.update skips it)
GuidSlot(prefix, slot) == IF slot = None THEN None ELSE Some(prefix \o slot[1])

\* roster_data['player_guid'] = roster_data['home_away'] + roster_data['jersey_number']
RosterGuid(player) == player.home_away \o player.jersey_number

\* player_dict.get(guid, guid): the player_id of the last roster row with
\* this guid, or the guid itself
PlayerDictGet(roster, guid) ==
    LET hits == {n \in 1..Len(roster) : RosterGuid(roster[n]) = guid}
    IN IF hits = {} THEN guid
       ELSE roster[CHOOSE n \in hits : \A m \in hits : m <= n].player_id

\* .replace(player_dict) on one value of a slot column
ReplaceSlot(roster, slot) ==
    IF slot = None THEN None ELSE Some(PlayerDictGet(roster, slot[1]))

\* the six slot columns of one side, row by row: slots[k] is column
\* away_k (home_k)
SlotColumns(text, column, prefix, roster) ==
    LET expanded == Expand(OnIceSplit(text, column))
    IN [i \in 1..Len(text) |->
           [k \in 1..Len(expanded[i]) |->
               ReplaceSlot(roster, GuidSlot(prefix, expanded[i][k]))]]

\* The jersey numbers of the cells drawn here: 11, 12, ...
OnIceNumber(k) == str(10 + k)

\* the cell listing the first k of them, each with a position letter
RECURSIVE OnIceCell(_)
OnIceCell(k) ==
    IF k = 0 THEN <<>>
    ELSE IF k = 1 THEN OnIceNumber(1) \o <<"D">>
    ELSE OnIceCell(k - 1) \o <<" ">> \o OnIceNumber(k) \o <<"D">>

\* plays_html as _parse_players_on_ice returns it: the columns of
\* ParsedReport, the two on-ice texts and the slot columns of both sides
ParsedPlays(text, game_id, roster) ==
    LET away == SlotColumns(text, "away_on_ice", AwayPrefix, roster)
        home == SlotColumns(text, "home_on_ice", HomePrefix, roster)
    IN [i \in 1..Len(text) |->
           ParsedRow(text[i], game_id)
               @@ [away_on_ice |-> text[i].away_on_ice,
                   home_on_ice |-> text[i].home_on_ice,
                   away |-> away[i],
                   home |-> home[i]]]

(***************************************************************************)
(* The three fetching functions and _parse_players_on_ice.                 *)
(***************************************************************************)
\* The report texts the report server answers with in the fetching
\* specification: the scraped cells of each row.
ReportTexts ==
    {<<[period |-> 1, time_elapsed |-> "00:00", play_type |-> "PSTR",
        play_description_html |-> <<"P">>,
        away_on_ice |-> <<" ">>, home_on_ice |-> <<" ">>],
       [period |-> 1, time_elapsed |-> "00:00", play_type |-> "FAC",
        play_description_html |-> <<"F">>,
        away_on_ice |-> OnIceCell(Len(away_cols)),
        home_on_ice |-> OnIceCell(Len(home_cols))]>>}

\* The roster the boxscore server answers with: one away and one home
\* player, as get_roster tabulates them.
Rosters ==
    {<<[home_away |-> AwayPrefix, jersey_number |-> OnIceNumber(1),
        player_id |-> <<"I", "D">> \o str(8470001)],
       [home_away |-> HomePrefix, jersey_number |-> OnIceNumber(2),
        player_id |-> <<"I", "D">> \o str(8470002)]>>}

\* _get_api_plays(year, season, game_number)
GetApiPlays ==
    /\ pc = "start"
    /\ pc' = "_get_api_plays"
    /\ LET e == CheckInput(args.year, args.season, args.game_number) IN
         /\ raised' = e
         /\ IF e # "none"
            THEN /\ requests' = requests
                 /\ ret' = ret
            ELSE /\ requests' = Append(requests,
                        FeedUrl(FeedGameId(args.year, args.season, args.game_number)))
                 /\ ret' = [json |-> "response"]
    /\ UNCHANGED <<args, json, api_df, html_df, combined_df, faceoff_df, game_id_dtype>>

\* _get_players_on_ice(year, season, game_number): returns (text, year, game_id)
GetPlayersOnIce ==
    /\ pc = "start"
    /\ pc' = "_get_players_on_ice"
    /\ LET e == CheckInput(args.year, args.season, args.game_number) IN
         /\ raised' = e
         /\ IF e # "none"
            THEN /\ requests' = requests
                 /\ ret' = ret
            ELSE \E text \in ReportTexts :
                 LET game_id == ReportGameId(args.season, args.game_number) IN
                 /\ requests' = Append(requests, ReportUrl(YearId(args.year), game_id))
                 /\ ret' = [text |-> text, year |-> args.year, game_id |-> game_id]
    /\ UNCHANGED <<args, json, api_df, html_df, combined_df, faceoff_df, game_id_dtype>>

\* get_roster(year, season, game_number); the roster table is built from the
\* boxscore the server answers with
GetRoster ==
    /\ pc = "start"
    /\ pc' = "get_roster"
    /\ LET e == CheckInput(args.year, args.season, args.game_number) IN
         /\ raised' = e
         /\ IF e # "none"
            THEN /\ requests' = requests
                 /\ ret' = ret
            ELSE /\ requests' = Append(requests,
                        BoxscoreUrl(FeedGameId(args.year, args.season, args.game_number)))
                 /\ \E roster \in Rosters : ret' = [roster |-> roster]
    /\ UNCHANGED <<args, json, api_df, html_df, combined_df, faceoff_df, game_id_dtype>>

\* _parse_players_on_ice(html, year, game_id) on what _get_players_on_ice
\* returned: the table with its on-ice columns split and named, then the
\* season and game number decoded from game_id, get_roster called with them
\* and the slots rewritten through its roster
ParsePlayersOnIce ==
    /\ pc = "_get_players_on_ice"
    /\ raised = "none"
    /\ pc' = "_parse_players_on_ice"
    /\ LET season == DecodedSeason(ret.game_id)
           game_number == DecodedGameNumber(ret.game_id)
           e == IF OnIceRaised(ret.text) # "none" THEN OnIceRaised(ret.text)
                ELSE CheckInput(ret.year, season, game_number)
       IN
         /\ raised' = e
         /\ IF e # "none"
            THEN /\ requests' = requests
                 /\ html_df' = html_df
                 /\ ret' = ret
            ELSE \E roster \in Rosters :
                 /\ requests' = Append(requests,
                        BoxscoreUrl(FeedGameId(ret.year, season, game_number)))
                 /\ html_df' = ParsedPlays(ret.text, ret.game_id, roster)
                 /\ ret' = [plays_html |-> ParsedPlays(ret.text, ret.game_id, roster)]
    /\ game_id_dtype' = "object"
    /\ UNCHANGED <<args, json, api_df, combined_df, faceoff_df>>

\* The GameKeys tried: years around the first valid one and a recent one,
\* every season flag and two strings that are none, every game number of the
\* valid range and the two just outside it.
Years == ((MinYear - 1)..(MinYear + YearSpan - 1)) \cup {2018}
SeasonFlags == seasons \cup {"playoffs", "02"}
GameNumbers == (0 - 1)..(MaxGameNumber + 1)

NoJson == [pk |-> 0, allPlays |-> <<>>]

InitFetch ==
    /\ pc = "start"
    /\ args \in [year : Years, season : SeasonFlags, game_number : GameNumbers]
    /\ raised = "none"
    /\ requests = <<>>
    /\ ret = "None"
    /\ json = NoJson
    /\ api_df = <<>>
    /\ html_df = <<>>
    /\ combined_df = <<>>
    /\ faceoff_df = <<>>
    /\ game_id_dtype = "object"

NextFetch == GetApiPlays \/ GetPlayersOnIce \/ GetRoster \/ ParsePlayersOnIce

SpecFetch == InitFetch /\ [][NextFetch]_vars

(***************************************************************************)
(* Claims about the fetching functions and the identifier codec, checked   *)
(* under SpecFetch.                                                        *)
(***************************************************************************)
Fetchers == {"_get_api_plays", "_get_players_on_ice", "get_roster"}

OutOfContract ==
    \/ args.year < 1917
    \/ args.season \notin {"pre", "regular", "post", "all-star"}
    \/ args.game_number < 0
    \/ args.game_number > 1313

C2_ReportGameIdMatchesFeed ==
    (pc = "_get_players_on_ice" /\ raised = "none") =>
        HtmlGameId(ret.year, ret.game_id)
            = int(FeedGameId(args.year, args.season, args.game_number))

C2_Witness ==
    /\ pc = "_get_players_on_ice"
    /\ raised = "none"
    /\ args = [year |-> 2018, season |-> "regular", game_number |-> 7]
    /\ HtmlGameId(ret.year, ret.game_id) = 2018020007

\* C3: the report id _get_players_on_ice returns decodes, as
\* _parse_players_on_ice decodes it, to the season and game number it was
\* built from, so the roster is requested for the original game.
C3_ReportIdRoundTrip ==
    /\ (pc = "_get_players_on_ice" /\ raised = "none") =>
            /\ DecodedSeason(ret.game_id) = args.season
            /\ DecodedGameNumber(ret.game_id) = args.game_number
    /\ pc = "_parse_players_on_ice" =>
            /\ raised = "none"
            /\ requests[2]
                   = BoxscoreUrl(FeedGameId(args.year, args.season, args.game_number))

C3_Witness ==
    /\ pc = "_parse_players_on_ice"
    /\ args.season = "all-star"
    /\ args.game_number = 1313
    /\ raised = "none"
    /\ Len(requests) = 2

(***************************************************************************)
(* The Report Parser on reports whose rows list between no and MaxOnIce    *)
(* players for each side: the caller holds what _get_players_on_ice        *)
(* returned for the game and hands it to _parse_players_on_ice.            *)
(***************************************************************************)
OnIceRows ==
    {[period |-> 1, time_elapsed |-> "00:00", play_type |-> "FAC",
      play_description_html |-> <<"F">>,
      away_on_ice |-> OnIceCell(a), home_on_ice |-> OnIceCell(h)] :
        a \in 0..MaxOnIce, h \in 0..MaxOnIce}

OnIceTexts == UNION {[1..n -> OnIceRows] : n \in 1..MaxReportRows}

InitReport ==
    /\ pc = "_get_players_on_ice"
    /\ args = [year |-> 2018, season |-> "regular", game_number |-> 1]
    /\ raised = "none"
    /\ requests = <<ReportUrl(YearId(args.year),
                              ReportGameId(args.season, args.game_number))>>
    /\ \E text \in OnIceTexts :
           ret = [text |-> text, year |-> args.year,
                  game_id |-> ReportGameId(args.season, args.game_number)]
    /\ json = NoJson
    /\ api_df = <<>>
    /\ html_df = <<>>
    /\ combined_df = <<>>
    /\ faceoff_df = <<>>
    /\ game_id_dtype = "object"

NextReport == ParsePlayersOnIce

SpecReport == InitReport /\ [][NextReport]_vars

\* the number of jersey numbers an on-ice cell lists: its runs of digits
NumbersListed(cell) ==
    Cardinality({i \in 1..Len(cell) :
                    /\ cell[i] \in {Digit[d] : d \in 1..Len(Digit)}
                    /\ i > 1 => cell[i - 1] \notin {Digit[d] : d \in 1..Len(Digit)}})

\* a slot that is missing or holds the empty string
EmptySlot(slot) == slot = None \/ slot = Some(<<>>)

\* C11: whatever number of players (six or fewer) the rows of a report list
\* for a side, _parse_players_on_ice returns without raising, and in the
\* table it returns every row has six slots for each side, the slots beyond
\* the numbers the row lists being empty or missing.
C11_ShortOnIceTolerated ==
    pc = "_parse_players_on_ice" =>
        /\ raised = "none"
        /\ \A i \in 1..Len(html_df) :
               /\ Len(html_df[i].away) = Len(away_cols)
               /\ Len(html_df[i].home) = Len(home_cols)
               /\ \A k \in 1..Len(away_cols) :
                      k > NumbersListed(html_df[i].away_on_ice)
                          => EmptySlot(html_df[i].away[k])
               /\ \A k \in 1..Len(home_cols) :
                      k > NumbersListed(html_df[i].home_on_ice)
                          => EmptySlot(html_df[i].home[k])

(***************************************************************************)
(* The Feed Parser.  A payload is [pk, allPlays]; a play is [eventIdx,      *)
(* eventTypeId, period, periodTime, players], where players is None when   *)
(* the play has no 'players' key and Some(list) otherwise, the list        *)
(* holding one [id, fullName] per participant.  The game-level columns     *)
(* other than game_id (date, team ids and codes) and the coordinates are   *)
(* copied through unchanged by the code and are left out.                  *)
(***************************************************************************)
\* the play raises: play.get('players')[0] on an empty list
PlayRaises(play) == play.players # None /\ Len(play.players[1]) = 0

\* the row one pass of the loop appends, for a play that does not raise
PlayRowAtLeastTwo(play, game_id) ==
    LET base == [game_id |-> game_id,
                 event_idx |-> play.eventIdx,
                 play_type_id |-> play.eventTypeId,
                 period |-> play.period,
                 time_elapsed |-> play.periodTime]
    IN
    IF play.players = None
    THEN base @@ [player1_id |-> None, player1_name |-> None,
                  player2_id |-> None, player2_name |-> None]
    ELSE LET players == play.players[1]
             player1 == players[1]
         IN
         IF Len(players) >= 2
         THEN base @@ [player1_id |-> Some(player1.id), player1_name |-> Some(player1.fullName),
                       player2_id |-> Some(players[2].id),
                       player2_name |-> Some(players[2].fullName)]
         ELSE base @@ [player1_id |-> Some(player1.id), player1_name |-> Some(player1.fullName),
                       player2_id |-> None, player2_name |-> None]

PlayRow(play, game_id) ==
    LET base == [game_id |-> game_id,
                 event_idx |-> play.eventIdx,
                 play_type_id |-> play.eventTypeId,
                 period |-> play.period,
                 time_elapsed |-> play.periodTime]
    IN
    IF play.players = None
    THEN base @@ [player1_id |-> None, player1_name |-> None,
                  player2_id |-> None, player2_name |-> None]
    ELSE LET players == play.players[1]
             player1 == players[1]
         IN
         IF Len(players) = 2
         THEN base @@ [player1_id |-> Some(player1.id), player1_name |-> Some(player1.fullName),
                       player2_id |-> Some(players[2].id),
                       player2_name |-> Some(players[2].fullName)]
         ELSE base @@ [player1_id |-> Some(player1.id), player1_name |-> Some(player1.fullName),
                       player2_id |-> None, player2_name |-> None]

\* _parse_api_plays(json): the exception of the first play that raises, or
\* the table with one row per play, in order
ParseApiPlaysRaised(payload) ==
    IF \E i \in 1..Len(payload.allPlays) : PlayRaises(payload.allPlays[i])
    THEN "IndexError"
    ELSE "none"

ParseApiPlaysTable(payload) ==
    [i \in 1..Len(payload.allPlays) |-> PlayRow(payload.allPlays[i], payload.pk)]

ParseApiPlays ==
    /\ pc = "start"
    /\ pc' = "_parse_api_plays"
    /\ raised' = ParseApiPlaysRaised(json)
    /\ api_df' = IF ParseApiPlaysRaised(json) = "none" THEN ParseApiPlaysTable(json) ELSE api_df
    /\ UNCHANGED <<args, requests, ret, json, html_df, combined_df, faceoff_df, game_id_dtype>>

\* The payloads tried: up to MaxPlays plays, each with no 'players' key or
\* with a list of 0..MaxPlayers participants.
Participant(k) == [id |-> 8470000 + k, fullName |-> <<"P", Digit[k + 1]>>]

ParticipantLists == {[k \in 1..n |-> Participant(k)] : n \in 0..MaxPlayers}

PlayersTried == {None} \cup {Some(l) : l \in ParticipantLists}

FeedPlays ==
    [eventIdx : {0}, eventTypeId : {"FACEOFF", "GOAL"}, period : {1}, periodTime : {"00:30"},
     players : PlayersTried]

\* eventIdx is the play's position in allPlays
Numbered(plays) == [i \in 1..Len(plays) |-> [plays[i] EXCEPT !.eventIdx = i - 1]]

PlayLists(Plays, n) == UNION {{Numbered(l) : l \in [1..k -> Plays]} : k \in 0..n}

DefaultArgs == [year |-> 2018, season |-> "regular", game_number |-> 1]

InitFeed ==
    /\ pc = "start"
    /\ args = DefaultArgs
    /\ raised = "none"
    /\ requests = <<>>
    /\ ret = "None"
    /\ json \in [pk : {int(FeedGameId(args.year, args.season, args.game_number))},
                 allPlays : PlayLists(FeedPlays, MaxPlays)]
    /\ api_df = <<>>
    /\ html_df = <<>>
    /\ combined_df = <<>>
    /\ faceoff_df = <<>>
    /\ game_id_dtype = "object"

NextFeed == ParseApiPlays

SpecFeed == InitFeed /\ [][NextFeed]_vars

(***************************************************************************)
(* Claims about the Feed Parser, checked under SpecFeed.                   *)
(***************************************************************************)
NumParticipants(play) == IF play.players = None THEN 0 ELSE Len(play.players[1])

\* C8: _parse_api_plays never fails on a play with few participants and
\* emits one row per play, in order: a play with no participants (the list
\* missing or empty) has both participant slots absent, a play with one
\* participant has participant 1 populated and participant 2 absent.
C8_FewParticipantsTolerated ==
    pc = "_parse_api_plays" =>
        /\ raised = "none"
        /\ Len(api_df) = Len(json.allPlays)
        /\ \A i \in 1..Len(json.allPlays) :
            /\ api_df[i].event_idx = json.allPlays[i].eventIdx
            /\ NumParticipants(json.allPlays[i]) = 0 =>
                   api_df[i].player1_id = None /\ api_df[i].player2_id = None
            /\ NumParticipants(json.allPlays[i]) = 1 =>
                   /\ api_df[i].player1_id = Some(json.allPlays[i].players[1][1].id)
                   /\ api_df[i].player2_id = None

JoinColumns == {"game_id", "period", "time_elapsed", "play_type_id"}

\* the key of a row: its values in the join columns
JoinKey(row) == [c \in JoinColumns |-> row[c]]

\* pd.merge matches two rows when their values agree in every join column;
\* a missing value (None, NaN) in a key column matches a missing value on the
\* other side, which NaN = NaN states here
KeysMatchOnThree(left, right) ==
    \A c \in JoinColumns \ {"play_type_id"} : left[c] = right[c]

KeysMatch(left, right) == JoinKey(left) = JoinKey(right)

\* html_df = html_df[html_cols]: the columns of the Report table that are
\* kept (play_type is dropped)
HtmlCols(row) ==
    [game_id |-> row.game_id,
     period |-> row.period,
     time_elapsed |-> row.time_elapsed,
     play_type_id |-> row.play_type_id,
     play_description_html |-> row.play_description_html]

\* a row of the merged table: the Feed row's columns and the Report row's
\* columns that are not join columns
MergedRow(left, right) ==
    left @@ [play_description_html |-> right.play_description_html]

\* the rows the Feed row `left` contributes: one per matching Report row
RECURSIVE MatchesOf(_, _)
MatchesOf(left, right_df) ==
    IF right_df = <<>> THEN <<>>
    ELSE (IF KeysMatch(left, Head(right_df))
          THEN <<MergedRow(left, Head(right_df))>>
          ELSE <<>>) \o MatchesOf(left, Tail(right_df))

\* pd.merge(left, right, on=[...]), an inner join
RECURSIVE MergeDedup(_, _)
MergeDedup(left_df, right_df) ==
    IF left_df = <<>> THEN <<>>
    ELSE LET rest == MergeDedup(Tail(left_df), right_df)
             new == MatchesOf(Head(left_df), right_df)
         IN IF new # <<>> /\ \A i \in 1..Len(rest) : JoinKey(rest[i]) # JoinKey(new[1])
            THEN <<new[1]>> \o rest
            ELSE rest

RECURSIVE Merge(_, _)
Merge(left_df, right_df) ==
    IF left_df = <<>> THEN <<>>
    ELSE MatchesOf(Head(left_df), right_df) \o Merge(Tail(left_df), right_df)

\* the caller's Report table after line 497 has rewritten its game_id column
WithHtmlGameId(df, year) ==
    [i \in 1..Len(df) |-> [df[i] EXCEPT !.game_id = HtmlGameId(year, df[i].game_id)]]

\* _combine_api_html_data(api_df, html_df, year), called by a caller who
\* keeps both tables and may call it again with them.  Line 497 assigns the
\* converted game_id column into the caller's html_df: the column holds
\* strings (dtype object) when the Report Parser made it and integers
\* (int64) after the first call.  str(year) + <an int64 column> raises
\* TypeError before anything is assigned.
Combine ==
    /\ pc \in {"start", "_combine_api_html_data"}
    /\ pc' = IF pc = "start" THEN "_combine_api_html_data"
             ELSE "_combine_api_html_data again"
    /\ IF game_id_dtype = "object"
       THEN /\ html_df' = WithHtmlGameId(html_df, args.year)
            /\ game_id_dtype' = "int64"
            /\ combined_df' =
                   Merge(api_df, [i \in 1..Len(html_df) |-> HtmlCols(html_df'[i])])
            /\ raised' = "none"
       ELSE /\ raised' = "TypeError"
            /\ UNCHANGED <<html_df, game_id_dtype, combined_df>>
    /\ UNCHANGED <<args, requests, ret, json, api_df, faceoff_df>>

\* Tables of up to n rows over a set of rows
Tables(Rows, lo, n) == UNION {[1..k -> Rows] : k \in lo..n}

\* each scraped row's description names its position in the report
NumberedCells(text) ==
    [i \in 1..Len(text) |-> [text[i] EXCEPT !.play_description_html = <<"r", Digit[i + 1]>>]]

TwoPlayers == Some(<<Participant(1), Participant(2)>>)

\* The Feed tables of the join specification: _parse_api_plays on payloads
\* of this game or of the next one, whose plays have one of three clock keys
\* and one of two event types.
JoinFeedPlays ==
    [eventIdx : {0}, eventTypeId : {"FACEOFF", "HIT"}, period : {1, 2},
     periodTime : {"00:30", "00:31"}, players : {TwoPlayers}]
        \ [eventIdx : {0}, eventTypeId : {"FACEOFF", "HIT"}, period : {2},
           periodTime : {"00:30"}, players : {TwoPlayers}]

\* The Report texts of the join specification
JoinReportCells ==
    [period : {1, 2}, time_elapsed : {"00:30", "00:31"}, play_type : {"FAC", "HIT"},
     play_description_html : {<<"d">>}]
        \ [period : {2}, time_elapsed : {"00:30"}, play_type : {"FAC", "HIT"},
           play_description_html : {<<"d">>}]

InitCombineOver(Plays, Pks, Cells) ==
    /\ pc = "start"
    /\ args = DefaultArgs
    /\ raised = "none"
    /\ requests = <<>>
    /\ ret = "None"
    /\ json = NoJson
    /\ \E pk \in Pks, plays \in PlayLists(Plays, MaxFeedRows) :
           api_df = ParseApiPlaysTable([pk |-> pk, allPlays |-> plays])
    /\ \E text \in Tables(Cells, 1, MaxReportRows) :
           html_df = ParsedReport(NumberedCells(text),
                                  ReportGameId(args.season, args.game_number))
    /\ combined_df = <<>>
    /\ faceoff_df = <<>>
    /\ game_id_dtype = "object"

ThisGame == int(FeedGameId(DefaultArgs.year, DefaultArgs.season, DefaultArgs.game_number))

InitCombine == InitCombineOver(JoinFeedPlays, {ThisGame, ThisGame + 1}, JoinReportCells)

NextCombine == Combine

SpecCombine == InitCombine /\ [][NextCombine]_vars

\* The tables of the vocabulary specification: Feed plays of this game with
\* a kept type, two of the types the spec excludes, or no eventTypeId; Report
\* rows with a kept code, an excluded one, or one outside play_lookup.
VocabFeedPlays ==
    [eventIdx : {0}, eventTypeId : {"FACEOFF", "PERIOD_START", "PERIOD_OFFICIAL", NaN},
     period : {1}, periodTime : {"00:00", "00:30"}, players : {TwoPlayers}]

VocabReportCells ==
    [period : {1}, time_elapsed : {"00:00", "00:30"}, play_type : {"FAC", "PSTR", "CHL"},
     play_description_html : {<<"d">>}]

InitVocab == InitCombineOver(VocabFeedPlays, {ThisGame}, VocabReportCells)

SpecVocab == InitVocab /\ [][NextCombine]_vars

(***************************************************************************)
(* Claims about the Reconciliation Engine.                                 *)
(***************************************************************************)
Combined == pc = "_combine_api_html_data"

\* the merged row the pair (Feed row i, Report row j) would contribute
PairRow(i, j) == MergedRow(api_df[i], HtmlCols(html_df[j]))

Contributes(i, j) == \E k \in 1..Len(combined_df) : combined_df[k] = PairRow(i, j)

Pairs == (1..Len(api_df)) \X (1..Len(html_df))

AgreeOnThree(a, b) ==
    a.game_id = b.game_id /\ a.period = b.period /\ a.time_elapsed = b.time_elapsed

AgreeOnFour(a, b) == AgreeOnThree(a, b) /\ a.play_type_id = b.play_type_id

NonTemporal ==
    {"GAME_SCHEDULED", "PERIOD_READY", "PERIOD_START", "PERIOD_END", "PERIOD_OFFICIAL",
     "GAME_END", "PENALTY", "STOP"}

NoReportCode == {"GAME_SCHEDULED", "PERIOD_READY", "PERIOD_OFFICIAL"}

C5_JoinOnThreeKeys ==
    Combined =>
        /\ raised = "none"
        /\ \A p \in Pairs :
               Contributes(p[1], p[2]) <=> AgreeOnThree(api_df[p[1]], html_df[p[2]])

\* C5 as amended: a pair contributes a merged row exactly when the two rows
\* agree on game id, period, time-elapsed and play_type_id; the merged table
\* has one row per such pair, and is empty, without error, when there is none.
C5_JoinOnFourKeys ==
    Combined =>
        /\ raised = "none"
        /\ \A p \in Pairs :
               Contributes(p[1], p[2]) <=> AgreeOnFour(api_df[p[1]], html_df[p[2]])
        /\ Len(combined_df)
               = Cardinality({p \in Pairs : AgreeOnFour(api_df[p[1]], html_df[p[2]])})

C5_Witness ==
    /\ Combined
    /\ raised = "none"
    /\ \E p \in Pairs :
           /\ AgreeOnThree(api_df[p[1]], html_df[p[2]])
           /\ api_df[p[1]].play_type_id # html_df[p[2]].play_type_id
           /\ ~Contributes(p[1], p[2])
    /\ \E p \in Pairs :
           /\ AgreeOnFour(api_df[p[1]], html_df[p[2]])
           /\ Contributes(p[1], p[2])
    /\ \E p \in Pairs :
           /\ api_df[p[1]].period # html_df[p[2]].period
           /\ api_df[p[1]].time_elapsed # html_df[p[2]].time_elapsed

ThreeKey(row) == <<row.game_id, row.period, row.time_elapsed>>

FourKey(row) == <<row.game_id, row.period, row.time_elapsed, row.play_type_id>>

\* the number of rows of a table with a given key
CountThreeKey(df, key) == Cardinality({i \in 1..Len(df) : ThreeKey(df[i]) = key})

CountFourKey(df, key) == Cardinality({i \in 1..Len(df) : FourKey(df[i]) = key})

\* C6 as stated: when k Feed rows and m Report rows share the same key
\* (game id, period, time-elapsed), the merged output has k*m rows for that
\* key; two Feed rows and one Report row with one key give 2 merged rows.
C6_ExpansionPerThreeKey ==
    Combined =>
        \A i \in 1..Len(api_df) :
            CountThreeKey(combined_df, ThreeKey(api_df[i]))
                = CountThreeKey(api_df, ThreeKey(api_df[i]))
                      * CountThreeKey(html_df, ThreeKey(api_df[i]))

\* C6 as amended: when k Feed rows and m Report rows share the same key
\* (game id, period, time-elapsed, play_type_id), the merged output has k*m
\* rows for that key; nothing is deduplicated.
C6_ExpansionPerFourKey ==
    Combined =>
        \A i \in 1..Len(api_df) :
            CountFourKey(combined_df, FourKey(api_df[i]))
                = CountFourKey(api_df, FourKey(api_df[i]))
                      * CountFourKey(html_df, FourKey(api_df[i]))

C6_Witness ==
    /\ Combined
    /\ Len(api_df) = 2
    /\ FourKey(api_df[1]) = FourKey(api_df[2])
    /\ CountFourKey(html_df, FourKey(api_df[1])) = 1
    /\ Len(combined_df) = 2

\* C7: a report code outside play_lookup maps to a missing play_type_id
\* without raising, and no Report row with such a code is in the merged
\* output, whatever the Feed table holds.
C7_UnmappedRowsExcluded ==
    Combined =>
        /\ raised = "none"
        /\ \A j \in 1..Len(html_df) :
               html_df[j].play_type \notin play_lookup_keys =>
                   /\ html_df[j].play_type_id = NaN
                   /\ \A i \in 1..Len(api_df) : ~Contributes(i, j)

\* C12: _combine_api_html_data leaves its inputs as they were: across every
\* call the caller's Feed table and Report table hold what they held before
\* (the Report table's game_id column stays a column of strings), and a
\* second call with the same two tables and year returns without raising
\* the merged table the first call returned.
C12_InputsNotMutated ==
    [][/\ api_df' = api_df
       /\ game_id_dtype' = game_id_dtype
       /\ html_df' = html_df
       /\ pc = "_combine_api_html_data" =>
              /\ raised' = "none"
              /\ combined_df' = combined_df]_vars

(***************************************************************************)
(* The Faceoff Deriver.                                                    *)
(***************************************************************************)
NeuZone == <<"N", "e", "u", ".", " ", "Z", "o", "n", "e">>
OffZone == <<"O", "f", "f", ".", " ", "Z", "o", "n", "e">>
DefZone == <<"D", "e", "f", ".", " ", "Z", "o", "n", "e">>

\* s.find(sub): the lowest 0-based index at which sub occurs in s, or -1
find(s, sub) ==
    LET hits == {i \in 0..(Len(s) - Len(sub)) : SubSeq(s, i + 1, i + Len(sub)) = sub}
    IN IF hits = {} THEN 0 - 1 ELSE CHOOSE i \in hits : \A j \in hits : i <= j

\* what a function gives when it returns a local variable no branch has bound
UnboundLocalError == "UnboundLocalError"

\* _get_player_1_zone(play_description)
get_player_1_zone(play_description) ==
    IF find(play_description, NeuZone) > 0 THEN "Neutral Zone"
    ELSE IF find(play_description, OffZone) > 0 THEN "Offensive Zone"
    ELSE IF find(play_description, DefZone) > 0 THEN "Defensive Zone"
    ELSE UnboundLocalError

\* _get_player_2_zone(player_1_zone)
get_player_2_zone(player_1_zone) ==
    IF player_1_zone = "Neutral Zone" THEN "Neutral Zone"
    ELSE IF player_1_zone = "Offensive Zone" THEN "Defensive Zone"
    ELSE IF player_1_zone = "Defensive Zone" THEN "Offensive Zone"
    ELSE UnboundLocalError

\* combined_df[combined_df['play_type_id'] == "FACEOFF"]
IsFaceoff(row) == row.play_type_id = "FACEOFF"

FaceoffRows(df) == SelectSeq(df, IsFaceoff)

\* 'ID' + id.astype(int).astype(str)
PlayerGuid(id) == <<"I", "D">> \o str(id[1])

\* the row of faceoff_df for a faceoff row of combined_df whose participants
\* are present and whose description names a zone
FaceoffRow(row) ==
    [game_id |-> row.game_id,
     play_type_id |-> row.play_type_id,
     period |-> row.period,
     time_elapsed |-> row.time_elapsed,
     play_description_html |-> row.play_description_html,
     player1_id |-> PlayerGuid(row.player1_id),
     player2_id |-> PlayerGuid(row.player2_id),
     player_1_zone |-> get_player_1_zone(row.play_description_html),
     player_2_zone |-> get_player_2_zone(get_player_1_zone(row.play_description_html))]

\* _get_faceoff_data(combined_df): astype(int) raises on a column holding a
\* missing participant id; apply raises what _get_player_1_zone raises
GetFaceoffData ==
    /\ pc = "start"
    /\ pc' = "_get_faceoff_data"
    /\ LET rows == FaceoffRows(combined_df)
           e == IF \E i \in 1..Len(rows) : rows[i].player1_id = None \/ rows[i].player2_id = None
                THEN "ValueError"
                ELSE IF \E i \in 1..Len(rows) :
                            get_player_1_zone(rows[i].play_description_html) = UnboundLocalError
                THEN UnboundLocalError
                ELSE "none"
       IN
         /\ raised' = e
         /\ faceoff_df' = IF e = "none"
                          THEN [i \in 1..Len(rows) |-> FaceoffRow(rows[i])]
                          ELSE faceoff_df
    /\ UNCHANGED <<args, requests, ret, json, api_df, html_df, combined_df, game_id_dtype>>

\* The descriptions tried: up to MaxParts pieces, each a zone marker or a
\* piece of the text around it.
Pieces ==
    {NeuZone, OffZone, DefZone, <<"M", "T", "L", " ", "w", "o", "n", " ">>,
     <<" ", "-", " ", "M", "T", "L", " ", "#", "1", "1">>}

RECURSIVE Concat(_)
Concat(parts) == IF parts = <<>> THEN <<>> ELSE Head(parts) \o Concat(Tail(parts))

Descriptions == {Concat(parts) : parts \in UNION {[1..k -> Pieces] : k \in 0..MaxParts}}

\* The merged tables tried: rows the engine builds from a Feed play with
\* one or two participants and a Report row with one of the descriptions.
FaceoffFeedPlays ==
    [eventIdx : {0}, eventTypeId : {"FACEOFF", "HIT"}, period : {1}, periodTime : {"00:30"},
     players : {TwoPlayers, Some(<<Participant(1)>>)}]

CombinedRows(plays, descs) ==
    [i \in 1..Len(plays) |->
        MergedRow(PlayRow(plays[i], ThisGame), [play_description_html |-> descs[i]])]

InitFaceoff ==
    /\ pc = "start"
    /\ args = DefaultArgs
    /\ raised = "none"
    /\ requests = <<>>
    /\ ret = "None"
    /\ json = NoJson
    /\ api_df = <<>>
    /\ html_df = <<>>
    /\ \E plays \in PlayLists(FaceoffFeedPlays, MaxCombinedRows) :
       \E descs \in [1..Len(plays) -> Descriptions] :
           combined_df = CombinedRows(plays, descs)
    /\ faceoff_df = <<>>
    /\ game_id_dtype = "object"

NextFaceoff == GetFaceoffData

SpecFaceoff == InitFaceoff /\ [][NextFaceoff]_vars

(***************************************************************************)
(* Claims about the Faceoff Deriver, checked under SpecFaceoff.            *)
(***************************************************************************)
Markers == {NeuZone, OffZone, DefZone}

Occurs(s, sub) == \E i \in 1..(Len(s) - Len(sub) + 1) : SubSeq(s, i, i + Len(sub) - 1) = sub

MarkersIn(s) == {m \in Markers : Occurs(s, m)}

StartsWithMarker(s) == \E m \in Markers : Len(s) >= Len(m) /\ SubSeq(s, 1, Len(m)) = m

ZoneNamedBy(m) ==
    CASE m = NeuZone -> "Neutral Zone"
      [] m = OffZone -> "Offensive Zone"
      [] m = DefZone -> "Defensive Zone"

OppositeZone(z) ==
    CASE z = "Neutral Zone" -> "Neutral Zone"
      [] z = "Offensive Zone" -> "Defensive Zone"
      [] z = "Defensive Zone" -> "Offensive Zone"

Derived == pc = "_get_faceoff_data"

ParticipantsPresent ==
    \A i \in 1..Len(combined_df) :
        IsFaceoff(combined_df[i]) =>
            combined_df[i].player1_id # None /\ combined_df[i].player2_id # None

\* C9: a faceoff row whose description has none of the three markers gets
\* player_1_zone and player_2_zone left missing, the derivation does not
\* raise, and the other faceoff rows of the table are still produced.  (The
\* tables looked at hold both participants in every faceoff row and no
\* marker at the very start of a description.)
C9_NoMarkerLeavesZonesMissing ==
    (/\ Derived
     /\ ParticipantsPresent
     /\ \A i \in 1..Len(combined_df) : ~StartsWithMarker(combined_df[i].play_description_html))
    =>
        /\ raised = "none"
        /\ Len(faceoff_df) = Len(FaceoffRows(combined_df))
        /\ \A i \in 1..Len(faceoff_df) :
               MarkersIn(FaceoffRows(combined_df)[i].play_description_html) = {} =>
                   faceoff_df[i].player_1_zone = NaN /\ faceoff_df[i].player_2_zone = NaN

\* C10: for every description with exactly one of the three markers, at any
\* position including the very start, player_1_zone is the zone the marker
\* names and player_2_zone its opposite.  (The tables looked at hold both
\* participants and exactly one marker in every faceoff row.)
C10_OneMarkerGivesZones ==
    (/\ Derived
     /\ ParticipantsPresent
     /\ \A i \in 1..Len(combined_df) :
            IsFaceoff(combined_df[i]) =>
                Cardinality(MarkersIn(combined_df[i].play_description_html)) = 1)
    =>
        /\ raised = "none"
        /\ Len(faceoff_df) = Len(FaceoffRows(combined_df))
        /\ \A i \in 1..Len(faceoff_df) :
               LET m == CHOOSE x \in Markers :
                            Occurs(FaceoffRows(combined_df)[i].play_description_html, x)
               IN /\ faceoff_df[i].player_1_zone = ZoneNamedBy(m)
                  /\ faceoff_df[i].player_2_zone = OppositeZone(ZoneNamedBy(m))

====
